---- MODULE Spec2Model ----
(***************************************************************************)
(* A model of the OpsAI ingestor pipeline (apps/ingestor): the two source  *)
(* adapters, the normalizer/classifier, the batch processor with its       *)
(* incident synthesizer, and the Kafka publisher.  Every await of the      *)
(* TypeScript code is a point where another callback may run, so every     *)
(* await is the end of one action here; the synchronous code between two   *)
(* awaits belongs to the action that the earlier await's result starts.    *)
(***************************************************************************)
EXTENDS Integers, Sequences, FiniteSets, TLC

VARIABLES
  events,          \* the Event collection: events[i] is the document with _id i
  incidents,       \* the Incident collection: incidents[i] has _id i
  isProcessing,    \* EventProcessorService.isProcessing
  runs,            \* the invocations of processPendingEvents, by frame
  kafkaConnected,  \* KafkaService.isConnected
  published,       \* the messages the producer has sent: <<topic, id>>
  lastOp,          \* the operation the latest step invoked
  pollRunning,     \* GitHubIngestorService.isRunning
  lastEtag,        \* GitHubIngestorService.lastEtag ("" is null)
  polls,           \* the invocations of pollGitHubEvents, by frame
  lastPoll,        \* the status and ETag header of the answer the latest
                   \* step of a poll received, and whether the poll rethrew
                   \* it to pollGitHubEvents' catch
  kafkaInit,       \* where KafkaService.onModuleInit is
  prov,            \* the invocations of ensureTopicExists, by topic
  topicExists,     \* the broker: which topics exist
  streamRunning,   \* WikimediaIngestorService.isRunning
  eventStream,     \* WikimediaIngestorService.eventStream (None is null)
  conns,           \* the upstream connections axios.get has asked for
  deliveries,      \* the invocations of the stream's data handler, by frame
  lastChunk,       \* the chunk the latest step delivered: the items its
                   \* lines hold, and how many the handler passed on
  subject,         \* the raw item handed to a classifier
  verdict,         \* the severity the classifier returned for it ("" before)
  analysis         \* what analyzeEventForIncident returned for its event

pipelineVars == <<events, incidents, isProcessing, runs, kafkaConnected, published>>

pollVars == <<pollRunning, lastEtag, polls, lastPoll>>

kafkaVars == <<kafkaInit, prov, topicExists>>

\* What the pipeline's actions leave alone, and what the poll adapter's do.
streamVars == <<streamRunning, eventStream, conns, deliveries>>

classifyVars == <<subject, verdict, analysis>>

notPipelineVars == <<pollVars, kafkaVars, streamVars, lastChunk, classifyVars>>

notPollVars == <<incidents, isProcessing, runs, kafkaVars, streamVars, lastChunk, classifyVars>>

notKafkaVars == <<events, incidents, isProcessing, runs, pollVars, streamVars, lastChunk, classifyVars>>

notStreamVars == <<incidents, isProcessing, runs, pollVars, kafkaVars, classifyVars>>

notClassifyVars == <<pipelineVars, pollVars, kafkaVars, streamVars, lastChunk>>

vars == <<events, incidents, isProcessing, runs, kafkaConnected, published, lastOp,
          pollRunning, lastEtag, polls, lastPoll, kafkaInit, prov, topicExists,
          streamRunning, eventStream, conns, deliveries, lastChunk,
          subject, verdict, analysis>>

\* ---------------------------------------------------------------- bounds
MaxEvents == 2
MaxIncidents == 2
MaxRuns == 2
MaxPolls == 2
MaxBody == 2
MaxConns == 2
MaxDeliveries == 2
MaxChunkLines == 2

\* ------------------------------------------------------------- constants
BatchLimit == 100
WikiHighDelta == 10000
WikiMassDelta == 50000
MaxRetries == 3
BackoffBase == 1000
BackoffCap == 5000

None == 0
RunIds == 1..MaxRuns
PollIds == 1..MaxPolls
ConnIds == 1..MaxConns
DeliveryIds == 1..MaxDeliveries

\* ------------------------------------------------------------------ text
\* A JavaScript string is the sequence of its characters.
LowerChar(c) ==
  CASE c = "V" -> "v" [] c = "S" -> "s" [] c = "H" -> "h" [] c = "M" -> "m"
    [] c = "B" -> "b" [] c = "A" -> "a" [] c = "I" -> "i" [] c = "D" -> "d"
    [] OTHER -> c

ToLowerCase(s) == [i \in DOMAIN s |-> LowerChar(s[i])]

Includes(s, k) ==
  \E i \in 1..(Len(s) - Len(k) + 1) : SubSeq(s, i, i + Len(k) - 1) = k

Abs(n) == IF n < 0 THEN -n ELSE n

\* JavaScript truthiness of a number (0 is falsy).
Truthy(n) == n # 0

\* ------------------------------------------------------------- raw items
Str_vandalism == <<"v","a","n","d","a","l","i","s","m">>
Str_spam == <<"s","p","a","m">>
Str_attack == <<"a","t","t","a","c","k">>
Str_hack == <<"h","a","c","k">>
Str_security == <<"s","e","c","u","r","i","t","y">>
Str_mainpage == <<"m","a","i","n"," ","p","a","g","e">>
Str_homepage == <<"h","o","m","e","p","a","g","e">>
Str_index == <<"i","n","d","e","x">>
Str_typo == <<"t","y","p","o">>
Str_Berlin == <<"B","e","r","l","i","n">>
Str_RevertVandalism == <<"R","e","v","e","r","t"," ","V","a","n","d","a","l","i","s","m">>

\* A recentchange item of the Wikimedia stream: dt is meta.dt, comment is
\* wikiEvent.comment ("" when absent), hasLength says whether the item
\* carries a length object.
WikiItem(dt, comment, title, hasLength, lenOld, lenNew) ==
  [source |-> "wikimedia", type |-> "change", dt |-> dt, comment |-> comment,
   title |-> title, hasLength |-> hasLength, lenOld |-> lenOld, lenNew |-> lenNew]

\* An item of the GitHub events feed: dt is created_at, alert is the
\* upstream severity of an alert payload ("" when absent), commits the
\* commit messages, ref the pushed ref, action the payload action, labels
\* the names of payload.issue.labels and prLabels those of
\* payload.pull_request.labels (the payload of a PullRequestEvent has a
\* pull_request and no issue, see line 267).
GitHubItem(dt, type, alert, commits, ref, action, labels, prLabels) ==
  [source |-> "github", type |-> type, dt |-> dt, alert |-> alert,
   commits |-> commits, ref |-> ref, action |-> action, labels |-> labels,
   prLabels |-> prLabels]

W_vandal == WikiItem(2, Str_RevertVandalism, Str_Berlin, TRUE, 1000, 1200)
W_mass == WikiItem(1, Str_typo, Str_Berlin, TRUE, 1000, 61000)
W_big == WikiItem(1, Str_typo, Str_Berlin, TRUE, 1000, 21000)
W_low == WikiItem(1, Str_typo, Str_Berlin, TRUE, 1000, 1010)
G_advisory == GitHubItem(1, "SecurityAdvisoryEvent", "", <<>>, "", "", <<>>, <<>>)
G_scanlow == GitHubItem(2, "CodeScanningAlertEvent", "low", <<>>, "", "", <<>>, <<>>)
G_watch == GitHubItem(2, "WatchEvent", "", <<>>, "", "started", <<>>, <<>>)

\* ------------------------------------------------------------ classifier
SensitiveKeywords == {Str_vandalism, Str_spam, Str_attack, Str_hack, Str_security}
ImportantPages == {Str_mainpage, Str_homepage, Str_index}

analyzeWikimediaSeverity(w) ==
  LET comment == ToLowerCase(w.comment)
      title == ToLowerCase(w.title)
  IN IF \E k \in SensitiveKeywords : Includes(comment, k) \/ Includes(title, k)
       THEN "critical"
     ELSE IF /\ w.hasLength /\ Truthy(w.lenOld) /\ Truthy(w.lenNew)
             /\ Abs(w.lenNew - w.lenOld) > WikiHighDelta
       THEN "high"
     ELSE IF \E p \in ImportantPages : Includes(title, p)
       THEN "medium"
     ELSE "low"

AlertSeverity(alert) ==
  IF alert \in {"critical", "high"} THEN "critical"
  ELSE IF alert = "medium" THEN "high"
  ELSE "medium"

Str_breaking == <<"b","r","e","a","k","i","n","g">>
Str_deprecate == <<"d","e","p","r","e","c","a","t","e">>

analyzeGitHubSeverity(g) ==
  IF g.type = "SecurityAdvisoryEvent" THEN "critical"
  ELSE IF g.type = "CodeScanningAlertEvent" THEN AlertSeverity(g.alert)
  ELSE IF g.type = "DependabotAlertEvent" THEN AlertSeverity(g.alert)
  ELSE IF /\ g.type = "PushEvent"
          /\ \E i \in DOMAIN g.commits :
               \/ Includes(ToLowerCase(g.commits[i]), Str_breaking)
               \/ Includes(ToLowerCase(g.commits[i]), Str_deprecate)
    THEN "high"
  ELSE IF g.type = "PushEvent" /\ g.ref \in {"refs/heads/main", "refs/heads/master"}
    THEN "medium"
  ELSE IF /\ g.type \in {"IssuesEvent", "PullRequestEvent"}
          /\ g.action = "opened"
          /\ \E i \in DOMAIN g.labels :
               ToLowerCase(g.labels[i]) \in {Str_security, <<"b","u","g">>, <<"c","r","i","t","i","c","a","l">>}
    THEN "high"
  ELSE "low"

Classify(item) ==
  IF item.source = "wikimedia" THEN analyzeWikimediaSeverity(item)
  ELSE analyzeGitHubSeverity(item)

\* ------------------------------------------------------------ normalizer
\* The Event document the ingestors build (status defaults to pending).
NewEvent(id, item) ==
  [id |-> id, source |-> item.source, type |-> item.type, timestamp |-> item.dt,
   raw |-> item, severity |-> Classify(item), status |-> "pending",
   incidentId |-> None, processingError |-> "", processedAt |-> FALSE]

\* ----------------------------------------------------------- synthesizer
NoDraft == [incidentType |-> "none", priority |-> "none"]

Draft(ev, incidentType) == [incidentType |-> incidentType, priority |-> ev.severity]

analyzeWikimediaEvent_AnyHigh(ev) ==
  IF ev.severity = "critical" THEN Draft(ev, "content_security")
  ELSE IF ev.severity = "high" THEN Draft(ev, "mass_content_change")
  ELSE NoDraft

analyzeGitHubEvent_CriticalOnly(ev) ==
  IF ev.severity = "critical" THEN Draft(ev, "security_alert")
  ELSE IF ev.type = "CodeScanningAlertEvent" /\ ev.severity = "medium"
    THEN Draft(ev, "code_quality")
  ELSE NoDraft

analyzeWikimediaEvent(ev) ==
  IF ev.severity = "critical" THEN Draft(ev, "content_security")
  ELSE IF /\ ev.severity = "high"
          /\ ev.raw.hasLength
          /\ Abs(ev.raw.lenNew - ev.raw.lenOld) > WikiMassDelta
    THEN Draft(ev, "mass_content_change")
  ELSE NoDraft

analyzeGitHubEvent(ev) ==
  IF ev.severity \in {"critical", "high"} THEN Draft(ev, "security_alert")
  ELSE IF ev.type = "CodeScanningAlertEvent" /\ ev.severity = "medium"
    THEN Draft(ev, "code_quality")
  ELSE NoDraft

analyzeGenericEvent(ev) ==
  IF ev.severity = "critical" THEN Draft(ev, "critical_event") ELSE NoDraft

analyzeEventForIncident_AlwaysDraft(ev) == Draft(ev, "critical_event")

analyzeEventForIncident(ev) ==
  IF ev.severity = "low" THEN NoDraft
  ELSE IF ev.source = "wikimedia" THEN analyzeWikimediaEvent(ev)
  ELSE IF ev.source = "github" THEN analyzeGitHubEvent(ev)
  ELSE analyzeGenericEvent(ev)

\* createIncident leaving eventIds to the schema's default.
NewIncident_DefaultEventIds(id, ev, draft) ==
  [id |-> id, incidentType |-> draft.incidentType, severity |-> draft.priority,
   status |-> "open", source |-> ev.source, raw |-> ev.raw,
   eventIds |-> <<>>, detectedAt |-> ev.timestamp]

\* The Incident document createIncident builds from the event and draft.
NewIncident(id, ev, draft) ==
  [id |-> id, incidentType |-> draft.incidentType, severity |-> draft.priority,
   status |-> "open", source |-> ev.source, raw |-> ev.raw,
   eventIds |-> <<ev.id>>, detectedAt |-> ev.timestamp]

\* ----------------------------------------------------------------- kafka
\* sendMessage: a disconnected client reconnects first (a failing connect
\* throws before anything is sent), then producer.send succeeds or throws.
SendOutcomes(connected) ==
  (IF connected THEN {} ELSE {[connected |-> FALSE, sent |-> FALSE, error |-> "KafkaConnectError"]})
  \cup {[connected |-> TRUE, sent |-> TRUE, error |-> ""],
        [connected |-> TRUE, sent |-> FALSE, error |-> "KafkaSendError"]}

\* ------------------------------------------------------------- ingestion
PipelineItems == {W_vandal, W_low, W_big, G_scanlow}

\* An ingestor callback as the pipeline sees it (processWikimediaEvent,
\* processGitHubEvent): the event is saved, then its notification is sent,
\* and every error is caught and logged inside the ingestor.  The adapters'
\* own specifications record the notification in the broker's log; here
\* only the pipeline's state is kept: the stored event and the client's
\* connection flag.
IngestSaved(item, out) ==
  /\ Len(events) < MaxEvents
  /\ events' = Append(events, NewEvent(Len(events) + 1, item))
  /\ kafkaConnected' = out.connected
  /\ lastOp' = "other"
  /\ UNCHANGED <<incidents, isProcessing, runs, published>>
  /\ UNCHANGED notPipelineVars

\* The save of the new event rejects: the catch logs it, nothing is stored.
IngestSaveFails ==
  /\ lastOp' = "other"
  /\ UNCHANGED pipelineVars
  /\ UNCHANGED notPipelineVars

Ingest ==
  \/ \E item \in PipelineItems : \E out \in SendOutcomes(kafkaConnected) : IngestSaved(item, out)
  \/ IngestSaveFails

\* ------------------------------------------------------- batch processor
\* One invocation of processPendingEvents: pc is the await it is suspended
\* at, docs the documents the pending query returned (with the changes made
\* to them in memory), idx the loop position, draft the incident data of
\* the current event, errs[i] the message of the error caught for docs[i].
IdleRun == [pc |-> "idle", docs |-> <<>>, idx |-> 0, draft |-> NoDraft, errs |-> <<>>]

ActiveRuns == {r \in RunIds : runs[r].pc # "idle"}

\* find({status: 'pending'}).sort({timestamp: 1}).limit(100)
Before(evs, i, j) ==
  \/ evs[i].timestamp < evs[j].timestamp
  \/ evs[i].timestamp = evs[j].timestamp /\ i < j

RECURSIVE SortByTimestamp(_, _)
SortByTimestamp(evs, S) ==
  IF S = {} THEN <<>>
  ELSE LET m == CHOOSE i \in S : \A j \in S \ {i} : Before(evs, i, j)
       IN <<evs[m]>> \o SortByTimestamp(evs, S \ {m})

Take(s, n) == SubSeq(s, 1, IF Len(s) < n THEN Len(s) ELSE n)

FindPending_AnyStatus(evs) == Take(SortByTimestamp(evs, DOMAIN evs), BatchLimit)

FindPending(evs) ==
  Take(SortByTimestamp(evs, {i \in DOMAIN evs : evs[i].status = "pending"}), BatchLimit)

\* event.save(): the document in memory replaces the stored one.
SaveEvent(evs, doc) == [evs EXCEPT ![doc.id] = doc]

\* processSingleEvent, lines 86-88: the event is marked processed in memory.
MarkProcessed(run) ==
  [run EXCEPT !.docs[run.idx].status = "processed",
              !.docs[run.idx].processedAt = TRUE,
              !.pc = "markSave"]

\* The loop of processEvents reaches docs[i]: the analysis runs, and the
\* run suspends at the first save.  Past the last document processEvents
\* returns.
BeginEvent(run, i) ==
  IF i > Len(run.docs) THEN IdleRun
  ELSE LET draft == analyzeEventForIncident(run.docs[i])
       IN IF draft # NoDraft
            THEN [run EXCEPT !.idx = i, !.draft = draft, !.pc = "incidentSave"]
            ELSE MarkProcessed([run EXCEPT !.idx = i, !.draft = NoDraft])

\* The catch of processEvents' loop, lines 61-66: the event is marked
\* failed in memory, and line 67 saves it.
CatchEventError(run, msg) ==
  [run EXCEPT !.docs[run.idx].status = "failed",
              !.docs[run.idx].processingError = msg,
              !.errs[run.idx] = msg,
              !.pc = "failSave"]

\* processPendingEvents without its finally.
SetRun_NoFinally(r, run) ==
  /\ runs' = [runs EXCEPT ![r] = run]
  /\ UNCHANGED isProcessing

\* A run's frame changes; the finally of processPendingEvents releases the
\* flag when the run has returned.
SetRun(r, run) ==
  /\ runs' = [runs EXCEPT ![r] = run]
  /\ isProcessing' = IF run.pc = "idle" THEN FALSE ELSE isProcessing

AlreadyProcessing_Never == FALSE

\* The guard of processPendingEvents, line 28.
AlreadyProcessing == isProcessing

\* The cron trigger, up to the await of the pending query.
processPendingEvents ==
  /\ lastOp' = "trigger"
  /\ IF AlreadyProcessing
       THEN UNCHANGED pipelineVars
       ELSE /\ \E r \in RunIds :
                 /\ runs[r].pc = "idle"
                 /\ \A q \in RunIds : q < r => runs[q].pc # "idle"
                 /\ runs' = [runs EXCEPT ![r] = [IdleRun EXCEPT !.pc = "find"]]
            /\ isProcessing' = TRUE
            /\ UNCHANGED <<events, incidents, kafkaConnected, published>>
  /\ UNCHANGED notPipelineVars

\* The pending query returns (or rejects: the outer catch logs it).
FindReturns(r) ==
  /\ runs[r].pc = "find"
  /\ lastOp' = "other"
  /\ \/ LET docs == FindPending(events)
        IN SetRun(r, BeginEvent([IdleRun EXCEPT !.docs = docs,
                                                !.errs = [i \in DOMAIN docs |-> ""]], 1))
     \/ SetRun(r, IdleRun)
  /\ UNCHANGED <<events, incidents, kafkaConnected, published>>
  /\ UNCHANGED notPipelineVars

\* createIncident, line 258: incident.save().
IncidentSave(r) ==
  /\ runs[r].pc = "incidentSave"
  /\ lastOp' = "other"
  /\ LET run == runs[r]
         id == Len(incidents) + 1
     IN \/ /\ Len(incidents) < MaxIncidents
           /\ incidents' = Append(incidents, NewIncident(id, run.docs[run.idx], run.draft))
           /\ SetRun(r, [run EXCEPT !.docs[run.idx].incidentId = id, !.pc = "linkSave"])
        \/ /\ UNCHANGED incidents
           /\ SetRun(r, CatchEventError(run, "IncidentSaveError"))
  /\ UNCHANGED <<events, kafkaConnected, published>>
  /\ UNCHANGED notPipelineVars

\* createIncident, line 262: event.save() with the incident id.
LinkSave(r) ==
  /\ runs[r].pc = "linkSave"
  /\ lastOp' = "other"
  /\ LET run == runs[r]
     IN \/ /\ events' = SaveEvent(events, run.docs[run.idx])
           /\ SetRun(r, [run EXCEPT !.pc = "notify"])
        \/ /\ UNCHANGED events
           /\ SetRun(r, CatchEventError(run, "EventSaveError"))
  /\ UNCHANGED <<incidents, kafkaConnected, published>>
  /\ UNCHANGED notPipelineVars

\* createIncident, line 265: the incident-created notification.
Notify(r) ==
  /\ runs[r].pc = "notify"
  /\ lastOp' = "other"
  /\ LET run == runs[r]
     IN \E out \in SendOutcomes(kafkaConnected) :
          /\ kafkaConnected' = out.connected
          /\ IF out.sent
               THEN /\ published' = published \cup {<<"opsai-incidents", run.docs[run.idx].incidentId>>}
                    /\ SetRun(r, MarkProcessed(run))
               ELSE /\ UNCHANGED published
                    /\ SetRun(r, CatchEventError(run, out.error))
  /\ UNCHANGED <<events, incidents>>
  /\ UNCHANGED notPipelineVars

\* processSingleEvent, line 89: event.save() of the processed event; the
\* logging that follows never throws, and the loop goes on.
MarkSave(r) ==
  /\ runs[r].pc = "markSave"
  /\ lastOp' = "other"
  /\ LET run == runs[r]
     IN \/ /\ events' = SaveEvent(events, run.docs[run.idx])
           /\ SetRun(r, BeginEvent(run, run.idx + 1))
        \/ /\ UNCHANGED events
           /\ SetRun(r, CatchEventError(run, "EventSaveError"))
  /\ UNCHANGED <<incidents, kafkaConnected, published>>
  /\ UNCHANGED notPipelineVars

\* processEvents, line 67: event.save() of the failed event inside the
\* catch; when it rejects, the error leaves the loop for the outer catch
\* and processEvents returns.
FailSave(r) ==
  /\ runs[r].pc = "failSave"
  /\ lastOp' = "other"
  /\ LET run == runs[r]
     IN \/ /\ events' = SaveEvent(events, run.docs[run.idx])
           /\ SetRun(r, BeginEvent(run, run.idx + 1))
        \/ /\ UNCHANGED events
           /\ SetRun(r, IdleRun)
  /\ UNCHANGED <<incidents, kafkaConnected, published>>
  /\ UNCHANGED notPipelineVars

BatchStep ==
  \E r \in RunIds :
    \/ FindReturns(r)
    \/ IncidentSave(r)
    \/ LinkSave(r)
    \/ Notify(r)
    \/ MarkSave(r)
    \/ FailSave(r)

\* ---------------------------------------------------------- the pipeline
PipelineInit ==
  /\ events = <<>>
  /\ incidents = <<>>
  /\ isProcessing = FALSE
  /\ runs = [r \in RunIds |-> IdleRun]
  /\ published = {}
  /\ lastOp = "other"

\* ---------------------------------------------------------- poll adapter
\* One invocation of pollGitHubEvents: pc is the await it is suspended at,
\* sent the If-None-Match header of its request, status the answer's
\* status, items the answer's body, idx the loop position and savedId the
\* _id of the event just saved.
IdlePoll == [pc |-> "idle", sent |-> "", items |-> <<>>, idx |-> 0, savedId |-> None]

ActivePolls == {p \in PollIds : polls[p].pc # "idle"}

\* A step of a poll that received no answer.
NoAnswer == [status |-> 0, error |-> FALSE, etag |-> ""]

PollInit ==
  /\ pollRunning = FALSE
  /\ lastEtag = ""
  /\ polls = [p \in PollIds |-> IdlePoll]
  /\ lastPoll = NoAnswer

PollItems == {G_advisory, G_watch}

Bodies == UNION {[1..n -> PollItems] : n \in 0..MaxBody}

\* The answers of the feed to a request that sent the validator `sent`:
\* 200 with a body and maybe an ETag header, 304 (to a conditional request
\* only), an error status, or no answer at all (status 0: a transport
\* error or the 30 s timeout).
Responses(sent) ==
  {[status |-> 200, etag |-> e, items |-> b] : e \in {"", "e1", "e2"}, b \in Bodies}
  \cup (IF sent # "" THEN {[status |-> 304, etag |-> sent, items |-> <<>>]} ELSE {})
  \cup {[status |-> st, etag |-> "", items |-> <<>>] : st \in {403, 429, 500, 0}}

ResponseHandling_304Throws(status) ==
  IF status = 0 THEN "throw"
  ELSE IF status < 400 THEN (IF status = 304 THEN "throw" ELSE "process")
  ELSE IF status = 403 THEN "return"
  ELSE "throw"

\* What fetchGitHubEvents does with an answer.  axios resolves a status
\* below 400 (validateStatus, line 65) and line 69 returns on 304; any other
\* answer rejects, and the catch returns on 304 and 403 and rethrows the
\* rest.
ResponseHandling(status) ==
  IF status = 0 THEN "throw"
  ELSE IF status < 400 THEN (IF status = 304 THEN "return" ELSE "process")
  ELSE IF status = 304 \/ status = 403 THEN "return"
  ELSE "throw"

StoreEtag_Always(stored, etag) == etag

\* Lines 75-78: the answer's ETag header, when it has one, becomes the
\* validator.
StoreEtag(stored, etag) == IF etag # "" THEN etag ELSE stored

\* A poll's frame changes; the finally of pollGitHubEvents releases the
\* flag when the run has returned.
SetPoll(p, poll) ==
  /\ polls' = [polls EXCEPT ![p] = poll]
  /\ pollRunning' = IF poll.pc = "idle" THEN FALSE ELSE pollRunning

\* The loop of fetchGitHubEvents reaches items[i]: processGitHubEvent
\* classifies it and suspends at the save.  Past the last item the poll
\* returns without an error.
BeginItem(poll, i) ==
  IF i > Len(poll.items) THEN IdlePoll
  ELSE [poll EXCEPT !.idx = i, !.pc = "save"]

PollAlreadyRunning_Never == FALSE

\* The guard of pollGitHubEvents, line 28.
PollAlreadyRunning == pollRunning

\* The cron trigger, up to the await of the GET.
pollGitHubEvents ==
  /\ lastOp' = "pollTick"
  /\ IF PollAlreadyRunning
       THEN UNCHANGED <<pollVars, events, kafkaConnected, published>>
       ELSE /\ \E p \in PollIds :
                 /\ polls[p].pc = "idle"
                 /\ \A q \in PollIds : q < p => polls[q].pc # "idle"
                 /\ polls' = [polls EXCEPT ![p] = [IdlePoll EXCEPT !.pc = "get", !.sent = lastEtag]]
            /\ pollRunning' = TRUE
            /\ lastPoll' = NoAnswer
            /\ UNCHANGED <<lastEtag, events, kafkaConnected, published>>
  /\ UNCHANGED notPollVars

\* The GET settles.
GetReturns(p) ==
  /\ polls[p].pc = "get"
  /\ lastOp' = "other"
  /\ \E resp \in Responses(polls[p].sent) :
       LET how == ResponseHandling(resp.status)
       IN /\ lastPoll' = [status |-> resp.status, error |-> (how = "throw"),
                          etag |-> resp.etag]
          /\ IF how = "process"
               THEN /\ lastEtag' = StoreEtag(lastEtag, resp.etag)
                    /\ SetPoll(p, BeginItem([polls[p] EXCEPT !.items = resp.items], 1))
               ELSE /\ UNCHANGED lastEtag
                    /\ SetPoll(p, IdlePoll)
  /\ UNCHANGED <<events, kafkaConnected, published>>
  /\ UNCHANGED notPollVars

\* processGitHubEvent, line 128: event.save(); a rejection is caught and
\* logged, and the loop goes on.
ItemSave(p) ==
  /\ polls[p].pc = "save"
  /\ lastOp' = "other"
  /\ LET poll == polls[p]
     IN \/ /\ Len(events) < MaxEvents
           /\ events' = Append(events, NewEvent(Len(events) + 1, poll.items[poll.idx]))
           /\ SetPoll(p, [poll EXCEPT !.pc = "send", !.savedId = Len(events) + 1])
        \/ /\ UNCHANGED events
           /\ SetPoll(p, BeginItem(poll, poll.idx + 1))
  /\ lastPoll' = NoAnswer
  /\ UNCHANGED <<lastEtag, kafkaConnected, published>>
  /\ UNCHANGED notPollVars

\* processGitHubEvent, line 132: the event notification; a rejection is
\* caught and logged, and the loop goes on.
ItemSend(p) ==
  /\ polls[p].pc = "send"
  /\ lastOp' = "other"
  /\ LET poll == polls[p]
     IN \E out \in SendOutcomes(kafkaConnected) :
          /\ kafkaConnected' = out.connected
          /\ published' = IF out.sent THEN published \cup {<<"opsai-events", poll.savedId>>}
                          ELSE published
          /\ SetPoll(p, BeginItem(poll, poll.idx + 1))
  /\ lastPoll' = NoAnswer
  /\ UNCHANGED <<lastEtag, events>>
  /\ UNCHANGED notPollVars

PollStep ==
  \E p \in PollIds :
    \/ GetReturns(p)
    \/ ItemSave(p)
    \/ ItemSend(p)

\* ------------------------------------------------- topic provisioning
DefaultTopics == {"opsai-events", "opsai-incidents", "opsai-knowledge", "opsai-dlq"}

\* One invocation of ensureTopicExists: pc is the await it is suspended at
\* ("success" and "failed" once it has returned or thrown), attempt the
\* loop variable, waits the backoff timers it has set so far.
IdleProv == [pc |-> "idle", attempt |-> 0, waits |-> <<>>]

Min(a, b) == IF a < b THEN a ELSE b

Backoff_DoublesFromFirst(attempt) == Min(BackoffBase * 2^attempt, BackoffCap)

\* Line 206: the wait after a failed attempt.
Backoff(attempt) == Min(BackoffBase * 2^(attempt - 1), BackoffCap)

\* The catch of ensureTopicExists, lines 200-215: a failed attempt waits
\* and retries while attempt < maxRetries, and the last one throws.
AttemptFails(fr) ==
  IF fr.attempt < MaxRetries
    THEN [fr EXCEPT !.pc = "wait", !.waits = Append(fr.waits, Backoff(fr.attempt))]
    ELSE [fr EXCEPT !.pc = "failed"]

\* The broker as a service started before the application: no topic yet.
KafkaInit ==
  /\ kafkaInit = "connect"
  /\ kafkaConnected = FALSE
  /\ prov = [t \in DefaultTopics |-> IdleProv]
  /\ topicExists = [t \in DefaultTopics |-> FALSE]
  /\ published = {}

\* onModuleInit, line 48: connect() resolves or throws (the catch at line
\* 57 logs it and the hook returns without provisioning).
KafkaConnect ==
  /\ kafkaInit = "connect"
  /\ \/ kafkaConnected' = TRUE /\ kafkaInit' = "settle"
     \/ kafkaConnected' = FALSE /\ kafkaInit' = "failed"
  /\ lastOp' = "other"
  /\ UNCHANGED <<prov, topicExists, published>>
  /\ UNCHANGED notKafkaVars

\* onModuleInit, lines 51-54: after the 5 s timer initializeDefaultTopics
\* starts ensureTopicExists for every default topic, each up to its first
\* await.
KafkaSettled ==
  /\ kafkaInit = "settle"
  /\ kafkaInit' = "topics"
  /\ prov' = [t \in DefaultTopics |-> [pc |-> "connect", attempt |-> 1, waits |-> <<>>]]
  /\ lastOp' = "other"
  /\ UNCHANGED <<kafkaConnected, topicExists, published>>
  /\ UNCHANGED notKafkaVars

\* Line 176: admin.connect().
AdminConnect(t) ==
  /\ prov[t].pc = "connect"
  /\ \/ prov' = [prov EXCEPT ![t].pc = "metadata"]
     \/ prov' = [prov EXCEPT ![t] = AttemptFails(prov[t])]
  /\ lastOp' = "other"
  /\ UNCHANGED <<kafkaInit, kafkaConnected, topicExists, published>>
  /\ UNCHANGED notKafkaVars

\* Lines 179-195: fetchTopicMetadata answers with the topics that exist;
\* an empty answer leads to createTopics.
FetchMetadata(t) ==
  /\ prov[t].pc = "metadata"
  /\ \/ prov' = [prov EXCEPT ![t].pc = IF topicExists[t] THEN "disconnect" ELSE "create"]
     \/ prov' = [prov EXCEPT ![t] = AttemptFails(prov[t])]
  /\ lastOp' = "other"
  /\ UNCHANGED <<kafkaInit, kafkaConnected, topicExists, published>>
  /\ UNCHANGED notKafkaVars

\* Line 183: admin.createTopics().
CreateTopics(t) ==
  /\ prov[t].pc = "create"
  /\ \/ /\ topicExists' = [topicExists EXCEPT ![t] = TRUE]
        /\ prov' = [prov EXCEPT ![t].pc = "disconnect"]
     \/ /\ UNCHANGED topicExists
        /\ prov' = [prov EXCEPT ![t] = AttemptFails(prov[t])]
  /\ lastOp' = "other"
  /\ UNCHANGED <<kafkaInit, kafkaConnected, published>>
  /\ UNCHANGED notKafkaVars

\* Lines 197-198: admin.disconnect(), then the return out of the loop.
AdminDisconnect(t) ==
  /\ prov[t].pc = "disconnect"
  /\ \/ prov' = [prov EXCEPT ![t].pc = "success"]
     \/ prov' = [prov EXCEPT ![t] = AttemptFails(prov[t])]
  /\ lastOp' = "other"
  /\ UNCHANGED <<kafkaInit, kafkaConnected, topicExists, published>>
  /\ UNCHANGED notKafkaVars

\* Line 208: the backoff timer fires and the loop starts the next attempt.
BackoffElapsed(t) ==
  /\ prov[t].pc = "wait"
  /\ prov' = [prov EXCEPT ![t].pc = "connect", ![t].attempt = prov[t].attempt + 1]
  /\ lastOp' = "other"
  /\ UNCHANGED <<kafkaInit, kafkaConnected, topicExists, published>>
  /\ UNCHANGED notKafkaVars

AllSettled_AllSucceed == \A t \in DefaultTopics : prov[t].pc = "success"

\* Lines 228-238: every topic's call has returned or thrown (each is caught
\* at line 233, so the promises given to Promise.allSettled all fulfil).
AllSettled == \A t \in DefaultTopics : prov[t].pc \in {"success", "failed"}

\* initializeDefaultTopics, lines 228-247: Promise.allSettled resolves when
\* every topic's call has returned or thrown; the summary is logged and
\* onModuleInit returns.
TopicsSettled ==
  /\ kafkaInit = "topics"
  /\ AllSettled
  /\ kafkaInit' = "ready"
  /\ lastOp' = "other"
  /\ UNCHANGED <<prov, kafkaConnected, topicExists, published>>
  /\ UNCHANGED notKafkaVars

\* sendMessage called by a cron-driven service once the application has
\* started (after every onModuleInit has returned).  The producer is
\* created with allowAutoTopicCreation (line 28): a send to a missing topic
\* makes the broker create it.
KafkaSend(topic) ==
  /\ kafkaInit \in {"ready", "failed"}
  /\ \E out \in SendOutcomes(kafkaConnected) :
       /\ kafkaConnected' = out.connected
       /\ published' = IF out.sent THEN published \cup {<<topic, None>>} ELSE published
       /\ topicExists' = IF out.sent THEN [topicExists EXCEPT ![topic] = TRUE] ELSE topicExists
  /\ lastOp' = "other"
  /\ UNCHANGED <<kafkaInit, prov>>
  /\ UNCHANGED notKafkaVars

\* The steps of one topic's provisioning.
TopicStep(t) ==
  \/ AdminConnect(t)
  \/ FetchMetadata(t)
  \/ CreateTopics(t)
  \/ AdminDisconnect(t)
  \/ BackoffElapsed(t)

\* The steps of onModuleInit.
KafkaStartup ==
  \/ KafkaConnect
  \/ KafkaSettled
  \/ \E t \in DefaultTopics : TopicStep(t)
  \/ TopicsSettled

KafkaNext ==
  \/ KafkaConnect
  \/ KafkaSettled
  \/ \E t \in DefaultTopics :
       \/ AdminConnect(t)
       \/ FetchMetadata(t)
       \/ CreateTopics(t)
       \/ AdminDisconnect(t)
       \/ BackoffElapsed(t)
  \/ TopicsSettled
  \/ \E topic \in {"opsai-events", "opsai-incidents"} : KafkaSend(topic)

\* The application once started: KafkaService.onModuleInit has returned,
\* with the client connected and the topics there, or after a failed
\* connect.
KafkaStarted ==
  \/ /\ kafkaInit = "ready"
     /\ kafkaConnected = TRUE
     /\ prov = [t \in DefaultTopics |-> [pc |-> "success", attempt |-> 1, waits |-> <<>>]]
     /\ topicExists = [t \in DefaultTopics |-> TRUE]
  \/ /\ kafkaInit = "failed"
     /\ kafkaConnected = FALSE
     /\ prov = [t \in DefaultTopics |-> IdleProv]
     /\ topicExists = [t \in DefaultTopics |-> FALSE]

\* -------------------------------------------------------- stream adapter
\* The upstream connections: "connecting" is an axios.get awaited at line
\* 46, "open" a response stream with the handlers of lines 57-79 attached,
\* "dead" a stream that has errored, ended or been destroyed and that
\* eventStream still refers to.  A dead stream nothing refers to is "free".
Collect(cs, es) ==
  [c \in ConnIds |-> IF cs[c] = "dead" /\ c # es THEN "free" ELSE cs[c]]

FreeConns == {c \in ConnIds : conns[c] = "free"}

\* The lines of a transport chunk.  A line is its SSE field name and the
\* text after it; the text of a data line is named by what it holds (a
\* heartbeat, the JSON of an item, or a part of one).
LineBodies == {"heartbeat", "low", "vandal", "garbage"}

ChunkLineSet ==
  [field : {"data"}, body : LineBodies] \cup {[field |-> "event", body |-> "message"]}

Chunks == UNION {[1..n -> ChunkLineSet] : n \in 1..MaxChunkLines}

\* JSON.parse of the text of a data line: the recentchange item it encodes,
\* or a SyntaxError.
JsonParse(body) ==
  CASE body = "low" -> [ok |-> TRUE, item |-> W_low]
    [] body = "vandal" -> [ok |-> TRUE, item |-> W_vandal]
    [] OTHER -> [ok |-> FALSE, item |-> W_low]

\* The data handler, lines 59-64: the whole chunk is trimmed and tested for
\* the "data: " prefix, and what follows the prefix (the further lines of
\* the chunk included) is parsed unless it is exactly "[heartbeat]".
ParseChunk(chunk) ==
  IF chunk[1].field # "data" THEN [ok |-> FALSE, item |-> W_low]
  ELSE IF Len(chunk) > 1 THEN [ok |-> FALSE, item |-> W_low]
  ELSE IF chunk[1].body = "heartbeat" THEN [ok |-> FALSE, item |-> W_low]
  ELSE JsonParse(chunk[1].body)

\* The lines of a chunk that are data lines holding an item.
RECURSIVE ItemLines(_)
ItemLines(chunk) ==
  IF chunk = <<>> THEN 0
  ELSE (IF chunk[1].field = "data" /\ JsonParse(chunk[1].body).ok THEN 1 ELSE 0)
       + ItemLines(Tail(chunk))

\* What the handler makes of the chunks a stream can deliver, with the
\* number of items each chunk holds.
ParseOutcomes ==
  {[ok |-> ParseChunk(chunk).ok, item |-> ParseChunk(chunk).item, held |-> ItemLines(chunk)] :
     chunk \in Chunks}

NoChunk == [held |-> 0, passed |-> 0]

\* One invocation of the data handler inside processWikimediaEvent: pc is
\* the await it is suspended at, item the parsed item, savedId the saved
\* event's _id.  The invocations in flight fill the first frames, in the
\* order of their data events.
IdleDelivery == [pc |-> "idle", item |-> W_low, savedId |-> None]

\* The place of a new invocation: after every one in flight.
NextFrame == 1 + Cardinality({d \in DeliveryIds : deliveries[d].pc # "idle"})

\* The frames once invocation d has returned: the later ones move up.
Retire(d) ==
  [e \in DeliveryIds |->
     IF e < d THEN deliveries[e]
     ELSE IF e + 1 \in DeliveryIds THEN deliveries[e + 1]
     ELSE IdleDelivery]

StreamInit ==
  /\ streamRunning = FALSE
  /\ eventStream = None
  /\ conns = [c \in ConnIds |-> "free"]
  /\ deliveries = [d \in DeliveryIds |-> IdleDelivery]
  /\ lastChunk = NoChunk

StreamAlreadyRunning_Never == FALSE

\* Line 35: the guard of startEventStream.
StreamAlreadyRunning == streamRunning

HealthSeesStopped_Never == FALSE

\* Line 28: the test of checkHealth.
HealthSeesStopped == ~streamRunning

\* startEventStream up to its await: the guard returns, or isRunning is set
\* and axios.get asks for a connection.
StartBody ==
  IF StreamAlreadyRunning
    THEN UNCHANGED <<streamRunning, conns>>
    ELSE /\ FreeConns # {}
         /\ streamRunning' = TRUE
         /\ LET c == CHOOSE c \in FreeConns : \A d \in FreeConns : c <= d
            IN conns' = [conns EXCEPT ![c] = "connecting"]

\* startEventStream called by another provider (the method is public).
startEventStream ==
  /\ lastChunk' = NoChunk
  /\ StartBody
  /\ lastOp' = "start"
  /\ UNCHANGED <<eventStream, deliveries, events, kafkaConnected, published>>
  /\ UNCHANGED notStreamVars

\* The cron tick of checkHealth, lines 26-32.
checkHealth ==
  /\ lastChunk' = NoChunk
  /\ IF HealthSeesStopped THEN StartBody ELSE UNCHANGED <<streamRunning, conns>>
  /\ lastOp' = "health"
  /\ UNCHANGED <<eventStream, deliveries, events, kafkaConnected, published>>
  /\ UNCHANGED notStreamVars

\* Line 46 resolves: lines 55-81 store the stream and attach the handlers.
ConnectOK(c) ==
  /\ lastChunk' = NoChunk
  /\ conns[c] = "connecting"
  /\ eventStream' = c
  /\ conns' = Collect([conns EXCEPT ![c] = "open"], c)
  /\ lastOp' = "other"
  /\ UNCHANGED <<streamRunning, deliveries, events, kafkaConnected, published>>
  /\ UNCHANGED notStreamVars

\* Line 46 rejects (refused, timed out, bad status): the catch, lines 82-85.
ConnectFail(c) ==
  /\ lastChunk' = NoChunk
  /\ conns[c] = "connecting"
  /\ streamRunning' = FALSE
  /\ conns' = [conns EXCEPT ![c] = "free"]
  /\ lastOp' = "other"
  /\ UNCHANGED <<eventStream, deliveries, events, kafkaConnected, published>>
  /\ UNCHANGED notStreamVars

\* The 'error' handler, lines 71-74.
StreamError(c) ==
  /\ lastChunk' = NoChunk
  /\ conns[c] = "open"
  /\ streamRunning' = FALSE
  /\ conns' = Collect([conns EXCEPT ![c] = "dead"], eventStream)
  /\ lastOp' = "other"
  /\ UNCHANGED <<eventStream, deliveries, events, kafkaConnected, published>>
  /\ UNCHANGED notStreamVars

\* The 'end' handler, lines 76-79.
StreamEnd(c) ==
  /\ lastChunk' = NoChunk
  /\ conns[c] = "open"
  /\ streamRunning' = FALSE
  /\ conns' = Collect([conns EXCEPT ![c] = "dead"], eventStream)
  /\ lastOp' = "other"
  /\ UNCHANGED <<eventStream, deliveries, events, kafkaConnected, published>>
  /\ UNCHANGED notStreamVars

\* stopEventStream, lines 88-95: the current stream, if any, is destroyed;
\* a connection still awaited at line 46 is not.
stopEventStream ==
  /\ lastChunk' = NoChunk
  /\ conns' = IF eventStream # None THEN Collect([conns EXCEPT ![eventStream] = "dead"], None)
              ELSE conns
  /\ eventStream' = None
  /\ streamRunning' = FALSE
  /\ lastOp' = "other"
  /\ UNCHANGED <<deliveries, events, kafkaConnected, published>>
  /\ UNCHANGED notStreamVars

\* A 'data' event of an open stream, lines 57-69: a chunk that does not
\* parse to an item is dropped (the catch at line 66 logs a SyntaxError);
\* an item enters processWikimediaEvent, which runs up to event.save().
\* The stream does not wait for the handler's promise.
StreamData(c) ==
  /\ conns[c] = "open"
  /\ \E parsed \in ParseOutcomes :
       IF parsed.ok
         THEN \E d \in DeliveryIds :
                /\ d = NextFrame
                /\ deliveries' = [deliveries EXCEPT ![d] =
                      [pc |-> "save", item |-> parsed.item, savedId |-> None]]
                /\ lastChunk' = [held |-> parsed.held, passed |-> 1]
         ELSE /\ UNCHANGED deliveries
              /\ lastChunk' = [held |-> parsed.held, passed |-> 0]
  /\ lastOp' = "other"
  /\ UNCHANGED <<streamRunning, eventStream, conns, events, kafkaConnected, published>>
  /\ UNCHANGED notStreamVars

\* processWikimediaEvent, line 122: event.save(); a rejection is caught at
\* line 142 and logged.
DeliverySave(d) ==
  /\ lastChunk' = NoChunk
  /\ deliveries[d].pc = "save"
  /\ \/ /\ Len(events) < MaxEvents
        /\ events' = Append(events, NewEvent(Len(events) + 1, deliveries[d].item))
        /\ deliveries' = [deliveries EXCEPT ![d].pc = "send", ![d].savedId = Len(events) + 1]
     \/ /\ UNCHANGED events
        /\ deliveries' = Retire(d)
  /\ lastOp' = "other"
  /\ UNCHANGED <<streamRunning, eventStream, conns, kafkaConnected, published>>
  /\ UNCHANGED notStreamVars

\* processWikimediaEvent, lines 126-140: the event notification, then the
\* log lines; a rejected send is caught at line 142 and logged.
DeliverySend(d) ==
  /\ lastChunk' = NoChunk
  /\ deliveries[d].pc = "send"
  /\ \E out \in SendOutcomes(kafkaConnected) :
       /\ kafkaConnected' = out.connected
       /\ published' = IF out.sent THEN published \cup {<<"opsai-events", deliveries[d].savedId>>}
                       ELSE published
  /\ deliveries' = Retire(d)
  /\ lastOp' = "other"
  /\ UNCHANGED <<streamRunning, eventStream, conns, events>>
  /\ UNCHANGED notStreamVars

\* The stream adapter without stopEventStream, which nothing in the
\* application calls.
StreamLiveNext ==
  \/ startEventStream
  \/ checkHealth
  \/ \E c \in ConnIds :
       \/ ConnectOK(c)
       \/ ConnectFail(c)
       \/ StreamError(c)
       \/ StreamEnd(c)
       \/ StreamData(c)
  \/ \E d \in DeliveryIds :
       \/ DeliverySave(d)
       \/ DeliverySend(d)

StreamNext ==
  \/ StreamLiveNext
  \/ stopEventStream

\* ------------------------------------------------- classifier by itself
\* The raw items the classifiers and the synthesizer are tried on.
Str_Index == <<"I","n","d","e","x">>
Str_Hackathon == <<"H","a","c","k","a","t","h","o","n">>
Str_fix == <<"f","i","x">>
Str_BreakingApi == <<"B","r","e","a","k","i","n","g"," ","a","p","i">>
Str_DeprecateOld == <<"D","e","p","r","e","c","a","t","e"," ","o","l","d">>
Str_Bug == <<"B","u","g">>
Str_docs == <<"d","o","c","s">>

WikiComments == {<<>>, Str_typo, Str_RevertVandalism}

WikiTitles == {Str_Berlin, Str_Index, Str_Hackathon}

WikiOldLengths == {0, 1000, 60000}

WikiNewLengths == {0, 1000, 11000, 11001, 51000, 51001, 61000}

WikiInputs ==
  {WikiItem(1, c, t, TRUE, o, n) :
     c \in WikiComments, t \in WikiTitles, o \in WikiOldLengths, n \in WikiNewLengths}
  \cup {WikiItem(1, c, t, FALSE, 0, 0) : c \in WikiComments, t \in WikiTitles}

CommitLists == {<<>>, <<Str_fix>>, <<Str_fix, Str_BreakingApi>>, <<Str_DeprecateOld>>}

Refs == {"refs/heads/main", "refs/heads/master", "refs/heads/feature"}

LabelLists == {<<>>, <<Str_docs>>, <<Str_docs, Str_Bug>>}

GitHubInputs ==
  {GitHubItem(1, "SecurityAdvisoryEvent", a, c, "", act, <<>>, <<>>) :
     a \in {"", "low"}, c \in {<<>>, <<Str_fix>>}, act \in {"", "opened"}}
  \cup {GitHubItem(1, t, a, <<>>, "", "", <<>>, <<>>) :
          t \in {"CodeScanningAlertEvent", "DependabotAlertEvent"},
          a \in {"", "low", "medium", "high", "critical"}}
  \cup {GitHubItem(1, "PushEvent", "", c, r, "", <<>>, <<>>) : c \in CommitLists, r \in Refs}
  \cup {GitHubItem(1, "IssuesEvent", "", <<>>, "", act, l, <<>>) :
          act \in {"opened", "closed"}, l \in LabelLists}
  \cup {GitHubItem(1, "PullRequestEvent", "", <<>>, "", act, <<>>, l) :
          act \in {"opened", "closed"}, l \in LabelLists}
  \cup {G_watch}

\* The analysis of an event not yet asked for.
NoAnalysisYet == [incidentType |-> "pending", priority |-> "pending"]

ClassifyInit ==
  /\ subject = W_low
  /\ verdict = ""
  /\ analysis = NoAnalysisYet

\* processWikimediaEvent, line 100: the classifier is applied to an item.
ClassifyWikimedia ==
  /\ \E w \in WikiInputs :
       /\ subject' = w
       /\ verdict' = analyzeWikimediaSeverity(w)
  /\ analysis' = NoAnalysisYet
  /\ lastOp' = "other"
  /\ UNCHANGED notClassifyVars

\* processGitHubEvent, line 106.
ClassifyGitHub ==
  /\ \E g \in GitHubInputs :
       /\ subject' = g
       /\ verdict' = analyzeGitHubSeverity(g)
  /\ analysis' = NoAnalysisYet
  /\ lastOp' = "other"
  /\ UNCHANGED notClassifyVars

\* processSingleEvent, line 80: the synthesizer is applied to the pending
\* event the ingestor built from the item.
AnalyzeSubject ==
  /\ verdict # ""
  /\ analysis = NoAnalysisYet
  /\ analysis' = analyzeEventForIncident(NewEvent(1, subject))
  /\ lastOp' = "other"
  /\ UNCHANGED <<subject, verdict>>
  /\ UNCHANGED notClassifyVars

ClassifyNext ==
  \/ ClassifyWikimedia
  \/ ClassifyGitHub
  \/ AnalyzeSubject

Init ==
  /\ PipelineInit
  /\ PollInit
  /\ KafkaStarted
  /\ StreamInit
  /\ ClassifyInit

Next ==
  \/ Ingest
  \/ processPendingEvents
  \/ BatchStep

Spec == Init /\ [][Next]_vars

\* The poll adapter with the store and the broker client it writes to.
PollNext ==
  \/ pollGitHubEvents
  \/ PollStep

SpecPoll == Init /\ [][PollNext]_vars

\* The Kafka service from the start of the application.
InitKafka ==
  /\ events = <<>>
  /\ incidents = <<>>
  /\ isProcessing = FALSE
  /\ runs = [r \in RunIds |-> IdleRun]
  /\ lastOp = "other"
  /\ PollInit
  /\ KafkaInit
  /\ StreamInit
  /\ ClassifyInit

SpecKafka == InitKafka /\ [][KafkaNext]_vars

\* The same when every awaited call and timer of the startup settles (the
\* client's calls are given timeouts at lines 14-24).
SpecKafkaLive == InitKafka /\ [][KafkaNext]_vars /\ WF_vars(KafkaStartup)

\* The classifiers and the synthesizer applied to single items.
SpecClassify == Init /\ [][ClassifyNext]_vars

\* The stream adapter with the store and the broker client it writes to.
SpecStream == Init /\ [][StreamNext]_vars

\* The same under the scheduling the claims of recovery assume: the cron
\* keeps ticking checkHealth, and connection attempts do not fail forever.
SpecStreamLive ==
  /\ Init
  /\ [][StreamLiveNext]_vars
  /\ WF_vars(checkHealth)
  /\ SF_vars(\E c \in ConnIds : ConnectOK(c))

\* The pending query of a run returns its documents.
FindAccepted ==
  \E r \in RunIds :
    /\ FindReturns(r)
    /\ FindPending(events) # <<>> => runs'[r].pc # "idle"

\* A run's save of event e (line 89 or line 67) is accepted by the store.
StoreAccepted(e) ==
  \E r \in RunIds :
    /\ runs[r].pc \in {"markSave", "failSave"}
    /\ runs[r].docs[runs[r].idx].id = e
    /\ MarkSave(r) \/ FailSave(r)
    /\ events'[e].status # "pending"

\* The pipeline under the scheduling the claims of progress assume: the
\* cron keeps triggering processPendingEvents, every awaited call of a run
\* settles, and the pending query is not refused forever.
SpecLive ==
  /\ Init
  /\ [][Next]_vars
  /\ WF_vars(processPendingEvents)
  /\ WF_vars(BatchStep)
  /\ SF_vars(FindAccepted)

\* The two scheduled jobs together: the poll stores events and the batch
\* processor works on them.
JobsNext ==
  \/ pollGitHubEvents
  \/ PollStep
  \/ processPendingEvents
  \/ BatchStep

\* The jobs start after a startup whose broker connection failed, so that
\* their sends meet the client disconnected as well as connected.
JobsInit ==
  /\ Init
  /\ kafkaInit = "failed"

SpecJobs == JobsInit /\ [][JobsNext]_vars

\* ---------------------------------------------------------------- claims

\* C1: the stored status of an event changes only from pending to processed
\* or from pending to failed; a processed or failed event keeps its status
\* in every step of every run, ingestor callback and failing call.
C1_StatusOnlyLeavesPending ==
  [][\A i \in DOMAIN events :
       /\ i \in DOMAIN events'
       /\ events'[i].status # events[i].status =>
            /\ events[i].status = "pending"
            /\ events'[i].status \in {"processed", "failed"}]_vars

\* A processed and a failed event are stored while a later run is querying.
C1_Witness ==
  /\ \E i \in DOMAIN events : events[i].status = "processed"
  /\ \E i \in DOMAIN events : events[i].status = "failed"
  /\ \E r \in RunIds : runs[r].pc = "find"

\* C2: no incident is ever linked to an event whose severity is low.
C2_NoIncidentForLowSeverity ==
  \A k \in DOMAIN incidents :
    \A j \in DOMAIN incidents[k].eventIds :
      events[incidents[k].eventIds[j]].severity # "low"

\* A low-severity event went through a run that also created an incident.
C2_Witness ==
  /\ \E i \in DOMAIN events :
       events[i].severity = "low" /\ events[i].status = "processed"
  /\ incidents # <<>>

\* C3: at most one run is in progress, and a trigger that finds a run in
\* progress changes nothing: no query is issued, nothing is written, and
\* isProcessing stays as it is.
C3_SingleRunAndSkippedTrigger ==
  [][/\ Cardinality(ActiveRuns') <= 1
     /\ (lastOp' = "trigger" /\ isProcessing) => UNCHANGED pipelineVars]_vars

\* A trigger has just fired while a run was suspended past its query.
C3_Witness ==
  /\ lastOp = "trigger"
  /\ isProcessing
  /\ \E r \in RunIds : runs[r].pc \notin {"idle", "find"}

\* C4: when a run that selected a batch returns, every event of the batch
\* has left pending, and every event an error was caught for is stored as
\* failed with that error's message.
C4_RunFinishesItsBatch ==
  [][\A r \in RunIds :
       (runs[r].pc \notin {"idle", "find"} /\ runs'[r].pc = "idle") =>
         \A i \in DOMAIN runs[r].docs :
           LET id == runs[r].docs[i].id
           IN /\ events'[id].status # "pending"
              /\ runs[r].errs[i] # "" =>
                   /\ events'[id].status = "failed"
                   /\ events'[id].processingError = runs[r].errs[i]]_vars

\* C5: whenever no run is in progress, a stored event with an incidentId
\* has status processed; and a stored incidentId never changes to another
\* value.
C5_IncidentIdOnlyOnProcessed ==
  [][/\ ActiveRuns' = {} =>
          \A i \in DOMAIN events' :
            events'[i].incidentId # None => events'[i].status = "processed"
     /\ \A i \in DOMAIN events :
          events[i].incidentId # None => events'[i].incidentId = events[i].incidentId]_vars

\* C6: at most one incident lists a given event in its eventIds.
C6_OneIncidentPerEvent ==
  \A i \in DOMAIN events :
    Cardinality({k \in DOMAIN incidents :
                   \E j \in DOMAIN incidents[k].eventIds : incidents[k].eventIds[j] = i}) <= 1

\* C7: a poll that is answered 304 returns at once: no item processing is
\* begun, no event is stored, nothing is published, and the poll ends
\* without an error.
C7_NotModifiedIsNoOp ==
  [][\A p \in PollIds :
       (polls[p].pc = "get" /\ polls'[p].pc # "get" /\ lastPoll'.status = 304) =>
         /\ polls'[p] = IdlePoll
         /\ events' = events
         /\ published' = published
         /\ kafkaConnected' = kafkaConnected
         /\ lastPoll'.error = FALSE]_vars

\* A conditional poll has just been answered 304.
C7_Witness ==
  /\ lastPoll.status = 304
  /\ lastEtag # ""
  /\ ~pollRunning
  /\ events # <<>>

\* The wait the claim gives for the retry after attempt k.
C8_ExpectedWait(k) == IF 1000 * 2^(k - 1) < 5000 THEN 1000 * 2^(k - 1) ELSE 5000

\* C8: ensureTopicExists makes at most 3 attempts; it returns at the first
\* attempt that succeeds, with the topic existing; it throws only after 3
\* failed attempts; the wait after failed attempt k is
\* min(1000*2^(k-1), 5000) ms, and no wait follows the last attempt.
C8_RetryAtMostThreeWithBackoff ==
  \A t \in DefaultTopics :
    LET fr == prov[t]
    IN /\ fr.attempt <= 3
       /\ Len(fr.waits) = (IF fr.pc = "wait" THEN fr.attempt
                          ELSE IF fr.pc = "idle" THEN 0 ELSE fr.attempt - 1)
       /\ \A k \in DOMAIN fr.waits : fr.waits[k] = C8_ExpectedWait(k)
       /\ fr.pc = "success" => topicExists[t]
       /\ fr.pc = "failed" => fr.attempt = 3 /\ Len(fr.waits) = 2

\* A topic whose first two attempts failed was provisioned by the third,
\* and a message has been published to it since.
C8_Witness ==
  /\ prov["opsai-events"].pc = "success"
  /\ prov["opsai-events"].attempt = 3
  /\ prov["opsai-events"].waits = <<1000, 2000>>
  /\ topicExists["opsai-events"]
  /\ <<"opsai-events", None>> \in published

\* C9: a call of startEventStream that finds the adapter running, a start
\* still awaiting its connection included, opens no connection, attaches
\* no handlers and leaves isRunning and the current stream as they are.
C9_StartWhileRunningIsNoOp ==
  [][(lastOp' = "start" /\ streamRunning) => UNCHANGED streamVars]_vars

\* startEventStream has just returned at its guard: the adapter is running
\* with its stream open and no connection is being opened.
C9_Witness ==
  /\ lastOp = "start"
  /\ streamRunning
  /\ eventStream # None
  /\ conns[eventStream] = "open"
  /\ \A c \in ConnIds : conns[c] # "connecting"

\* The adapter is running on an open stream.
C10_Streaming ==
  /\ streamRunning
  /\ eventStream # None
  /\ conns[eventStream] = "open"

\* C10: a stream error, a stream end and a failed connection attempt each
\* leave the adapter not running and begin no connection; a health tick
\* that finds it not running begins one; and under the fair schedule a
\* stopped adapter is eventually running on an open stream again.
C10_StopsThenHealthRestarts ==
  /\ [][/\ \A c \in ConnIds :
              (conns[c] \in {"open", "connecting"} /\ conns'[c] \in {"dead", "free"}) =>
                /\ ~streamRunning'
                /\ \A d \in ConnIds : conns'[d] = "connecting" => conns[d] = "connecting"
                /\ eventStream' = eventStream
        /\ (lastOp' = "health" /\ ~streamRunning) =>
              (/\ streamRunning'
               /\ \E c \in ConnIds : conns[c] # "connecting" /\ conns'[c] = "connecting")]_vars
  /\ (~streamRunning ~> C10_Streaming)

\* The health tick has just restarted the adapter whose stream had died:
\* eventStream still refers to the dead stream and a connection is awaited.
C10_Witness ==
  /\ lastOp = "health"
  /\ streamRunning
  /\ eventStream # None
  /\ conns[eventStream] = "dead"
  /\ \E c \in ConnIds : conns[c] = "connecting"

\* C11: at most one poll run is in progress; a tick that finds a run in
\* progress sends no request and stores and publishes nothing; and a run
\* begins only in the step of a tick that found none in progress (a skipped
\* tick is not made up for later).
C11_SinglePollAndSkippedTick ==
  [][/\ Cardinality(ActivePolls') <= 1
     /\ (lastOp' = "pollTick" /\ pollRunning) =>
          UNCHANGED <<pollVars, events, kafkaConnected, published>>
     /\ \A p \in PollIds :
          (polls[p].pc = "idle" /\ polls'[p].pc # "idle") =>
            (lastOp' = "pollTick" /\ ~pollRunning)]_vars

\* A tick has just fired while the run in progress was inside its loop.
C11_Witness ==
  /\ lastOp = "pollTick"
  /\ pollRunning
  /\ \E p \in PollIds : polls[p].pc \in {"save", "send"}

\* C12: an event stored as processed or failed is left exactly as it is by
\* every step; the pending query never returns it; the event a run is
\* working on is stored as pending; and no incident is created for it.
C12_SettledEventsUntouched ==
  [][/\ \A i \in DOMAIN events :
          events[i].status \in {"processed", "failed"} => events'[i] = events[i]
     /\ \A r \in RunIds :
          /\ (runs[r].pc = "find" /\ runs'[r].pc # "find") =>
               \A j \in DOMAIN runs'[r].docs :
                 events[runs'[r].docs[j].id].status = "pending"
          /\ runs'[r].pc \notin {"idle", "find"} =>
               events'[runs'[r].docs[runs'[r].idx].id].status = "pending"
     /\ Len(incidents') > Len(incidents) =>
          \A j \in DOMAIN incidents'[Len(incidents')].eventIds :
            events[incidents'[Len(incidents')].eventIds[j]].status = "pending"]_vars

\* A run has its batch, and an event that an earlier run left failed is
\* stored and not part of it.
C12_Witness ==
  \E r \in RunIds :
    /\ runs[r].pc \notin {"idle", "find"}
    /\ \E i \in DOMAIN events :
         /\ events[i].status = "failed"
         /\ \A j \in DOMAIN runs[r].docs : runs[r].docs[j].id # i

\* The severity the ordered rules of the claim give a Wikimedia item.
C13_Expected(w) ==
  IF \E k \in {Str_vandalism, Str_spam, Str_attack, Str_hack, Str_security} :
       Includes(ToLowerCase(w.comment), k) \/ Includes(ToLowerCase(w.title), k)
    THEN "critical"
  ELSE IF w.hasLength /\ Abs(w.lenNew - w.lenOld) > 10000 THEN "high"
  ELSE IF \E p \in {Str_mainpage, Str_homepage, Str_index} : Includes(ToLowerCase(w.title), p)
    THEN "medium"
  ELSE "low"

\* C13: the severity returned for a Wikimedia item is the first match of:
\* sensitive keyword in the lower-cased comment or title -> critical; edit
\* size delta above 10000 bytes -> high; important page title -> medium;
\* otherwise low.
C13_WikimediaOrderedRules ==
  (subject.source = "wikimedia" /\ verdict # "") => verdict = C13_Expected(subject)

\* The severity the ordered rules of the claim give a GitHub item.
C14_HasKeyword(g) ==
  \E i \in DOMAIN g.commits :
    \/ Includes(ToLowerCase(g.commits[i]), Str_breaking)
    \/ Includes(ToLowerCase(g.commits[i]), Str_deprecate)

C14_Flagged(labels) ==
  \E i \in DOMAIN labels :
    ToLowerCase(labels[i]) \in {Str_security, <<"b","u","g">>, <<"c","r","i","t","i","c","a","l">>}

C14_Expected(g) ==
  IF g.type = "SecurityAdvisoryEvent" THEN "critical"
  ELSE IF g.type \in {"CodeScanningAlertEvent", "DependabotAlertEvent"}
    THEN (IF g.alert \in {"critical", "high"} THEN "critical"
          ELSE IF g.alert = "medium" THEN "high" ELSE "medium")
  ELSE IF g.type = "PushEvent" /\ g.ref \in {"refs/heads/main", "refs/heads/master"}
    THEN (IF C14_HasKeyword(g) THEN "high" ELSE "medium")
  ELSE IF g.type = "IssuesEvent" /\ g.action = "opened" /\ C14_Flagged(g.labels) THEN "high"
  ELSE IF g.type = "PullRequestEvent" /\ g.action = "opened" /\ C14_Flagged(g.prLabels)
    THEN "high"
  ELSE "low"

\* C14: the severity returned for a GitHub item is the first match of:
\* security advisory -> critical; code-scanning or dependency alert ->
\* critical, high or medium by its upstream severity; push to main or
\* master -> high with a breaking/deprecate commit message and medium
\* without; opened issue or pull request with a security, bug or critical
\* label -> high; otherwise low.
C14_GitHubOrderedRules ==
  (subject.source = "github" /\ verdict # "") => verdict = C14_Expected(subject)

\* C15: for the pending event of a Wikimedia item the synthesizer returns a
\* content-security incident exactly when the severity is critical, a
\* mass-content-change incident exactly when the severity is high and the
\* edit size delta exceeds 50000, and nothing otherwise; the incident takes
\* the event's severity; and the item with lengths 1000 and 61000 and no
\* keyword is high and gets a mass-content-change incident.
C15_WikimediaIncidents ==
  (subject.source = "wikimedia" /\ analysis # NoAnalysisYet) =>
    LET delta == Abs(subject.lenNew - subject.lenOld)
    IN /\ (analysis.incidentType = "content_security") <=> (verdict = "critical")
       /\ (analysis.incidentType = "mass_content_change") <=>
            (verdict = "high" /\ delta > 50000)
       /\ (analysis = NoDraft) <=> ~(verdict = "critical" \/ (verdict = "high" /\ delta > 50000))
       /\ analysis # NoDraft => analysis.priority = verdict
       /\ (/\ subject.lenOld = 1000 /\ subject.lenNew = 61000 /\ subject.hasLength
           /\ subject.comment = Str_typo /\ subject.title = Str_Berlin) =>
            (/\ verdict = "high"
             /\ NewIncident(1, NewEvent(1, subject), analysis).incidentType = "mass_content_change"
             /\ NewIncident(1, NewEvent(1, subject), analysis).severity = "high")

\* The synthesizer has answered for the item with lengths 1000 and 61000.
C15_Witness ==
  /\ subject = W_mass
  /\ analysis.incidentType = "mass_content_change"

\* C16: for the pending event of a GitHub item the synthesizer returns a
\* security-alert incident exactly when the severity is critical or high, a
\* code-quality incident exactly when the severity is medium and the type
\* is CodeScanningAlertEvent, and nothing otherwise; and every
\* SecurityAdvisoryEvent is critical and gets an incident.
C16_GitHubIncidents ==
  /\ (subject.source = "github" /\ verdict # "" /\ subject.type = "SecurityAdvisoryEvent") =>
       verdict = "critical"
  /\ (subject.source = "github" /\ analysis # NoAnalysisYet) =>
       /\ (analysis.incidentType = "security_alert") <=> (verdict \in {"critical", "high"})
       /\ (analysis.incidentType = "code_quality") <=>
            (verdict = "medium" /\ subject.type = "CodeScanningAlertEvent")
       /\ (analysis = NoDraft) <=>
            ~(\/ verdict \in {"critical", "high"}
              \/ (verdict = "medium" /\ subject.type = "CodeScanningAlertEvent"))
       /\ subject.type = "SecurityAdvisoryEvent" => analysis.incidentType = "security_alert"

\* The synthesizer has answered for a security advisory that carries other
\* fields as well.
C16_Witness ==
  /\ subject.source = "github"
  /\ subject.type = "SecurityAdvisoryEvent"
  /\ subject.action = "opened"
  /\ subject.commits # <<>>
  /\ analysis.incidentType = "security_alert"

\* C17: a poll that is answered 403 or 429 ends there: no item processing
\* is begun, no event is stored, nothing is published, the stored ETag is
\* kept, the running flag is released, and no error reaches the catch of
\* pollGitHubEvents.
C17_RateLimitIsSkip ==
  [][\A p \in PollIds :
       (polls[p].pc = "get" /\ polls'[p].pc # "get" /\ lastPoll'.status \in {403, 429}) =>
         /\ polls'[p] = IdlePoll
         /\ events' = events
         /\ published' = published
         /\ lastEtag' = lastEtag
         /\ ~pollRunning'
         /\ lastPoll'.error = FALSE]_vars

\* C18: no outcome of a broker call alters the stored record of an event:
\* every stored event keeps the item and the severity the ingestor saved,
\* and no stored event carries the error of a broker call.
C18_PublishNeverAltersEvents ==
  \A i \in DOMAIN events :
    /\ events[i].raw = NewEvent(i, events[i].raw).raw
    /\ events[i].severity = NewEvent(i, events[i].raw).severity
    /\ events[i].processingError \notin {"KafkaConnectError", "KafkaSendError"}

\* Every topic has been attempted, and a topic still being provisioned can
\* take its next step whatever has become of the others.
C19_Independent ==
  /\ kafkaInit \in {"topics", "ready"} => \A t \in DefaultTopics : prov[t].attempt >= 1
  /\ \A t \in DefaultTopics :
       prov[t].pc \in {"connect", "metadata", "create", "disconnect", "wait"} =>
         ENABLED TopicStep(t)
  /\ kafkaInit = "ready" => AllSettled

\* C19: the default topics are provisioned independently: every one is
\* attempted, a failed one stops no other, and onModuleInit always returns
\* (with the topics settled, or after a failed connection) whichever of
\* them fail.
C19_StartupCompletes ==
  /\ []C19_Independent
  /\ <>(kafkaInit \in {"ready", "failed"})

\* Startup has returned with one topic failed after three attempts and the
\* three others created.
C19_Witness ==
  /\ kafkaInit = "ready"
  /\ prov["opsai-events"].pc = "failed"
  /\ ~topicExists["opsai-events"]
  /\ \A t \in DefaultTopics \ {"opsai-events"} : prov[t].pc = "success" /\ topicExists[t]

\* C20: whenever a message has been sent to the broker, the provisioning of
\* every default topic had been attempted before.
C20_ProvisionBeforeSend ==
  published # {} => \A t \in DefaultTopics : prov[t].attempt >= 1

\* C21: the events of the stream are stored in arrival order: the handler
\* of a data event stores its event only while no handler of a later data
\* event has already stored its own.
C21_StoredInArrivalOrder ==
  [][\A d \in DeliveryIds :
       (/\ deliveries[d].pc = "save"
        /\ deliveries'[d].pc = "send"
        /\ Len(events') = Len(events) + 1)
       => \A e \in DeliveryIds : e > d => deliveries[e].pc # "send"]_vars

\* C22: of every chunk the stream delivers, the data handler passes on one
\* item for each data line that holds one, however many lines the chunk
\* groups, and none for the other lines.
C22_OneEventPerDataLine == lastChunk.passed = lastChunk.held

\* C23: every stored incident names exactly one event, the one it was
\* created from: its detectedAt is that event's timestamp, its raw that
\* event's raw payload, and its status is open; no step of the pipeline
\* leaves an incident with no eventIds.
C23_IncidentNamesItsEvent ==
  \A i \in 1..Len(incidents) :
    LET inc == incidents[i]
    IN /\ Len(inc.eventIds) = 1
       /\ inc.eventIds[1] \in 1..Len(events)
       /\ inc.detectedAt = events[inc.eventIds[1]].timestamp
       /\ inc.raw = events[inc.eventIds[1]].raw
       /\ inc.source = events[inc.eventIds[1]].source
       /\ inc.status = "open"

\* An incident has been created from the second event, which a run has
\* since stored as processed.
C23_Witness ==
  \E i \in 1..Len(incidents) :
    /\ incidents[i].eventIds = <<2>>
    /\ events[2].status = "processed"
    /\ events[2].incidentId = incidents[i].id

\* C24: whenever the adapter is not running with no stream of its own, as
\* stopEventStream leaves it, no upstream stream is open: a start that was
\* awaiting its connection when the stop ran opens none afterwards.
C24_StopLeavesNothingOpen ==
  [][(~streamRunning /\ eventStream = None /\ \A c \in ConnIds : conns[c] # "open")
       => (\A c \in ConnIds : conns'[c] # "open")]_vars

\* C25: a poll sends the stored validator, which is the ETag of the latest
\* answer that was processed and had one (none before the first).  An
\* answer that is not processed (304, a rate limit, another error status,
\* no answer) leaves the validator as it was, and the run that advanced it
\* returns only when every item of the answer has been handed to
\* processGitHubEvent.
C25_ValidatorFollowsProcessedAnswers ==
  [][\A p \in PollIds :
       /\ (polls[p].pc = "idle" /\ polls'[p].pc = "get") =>
            /\ polls'[p].sent = lastEtag
            /\ lastEtag' = lastEtag
       /\ (polls[p].pc = "get" /\ polls'[p].pc # "get") =>
            lastEtag' = IF lastPoll'.status = 200 /\ lastPoll'.etag # ""
                          THEN lastPoll'.etag
                          ELSE lastEtag
       /\ (polls[p].pc \in {"save", "send"}) =>
            /\ lastEtag' = lastEtag
            /\ polls'[p].pc = "idle" => polls[p].idx = Len(polls[p].items)
            /\ polls'[p].pc # "idle" => polls'[p].idx \in {polls[p].idx, polls[p].idx + 1}]_vars

\* A poll that sent the validator e1 has been answered 200 with the ETag e2
\* and two items; the first has been handed on and the second is being
\* saved, with e2 stored.
C25_Witness ==
  \E p \in PollIds :
    /\ polls[p].sent = "e1"
    /\ polls[p].pc = "save"
    /\ polls[p].idx = 2
    /\ Len(polls[p].items) = 2
    /\ lastEtag = "e2"

\* C26: a stored event's outcome markers agree with its status:
\* processingError is set only on a failed event and processedAt only on a
\* processed one.
C26_MarkersAgreeWithStatus ==
  \A i \in 1..Len(events) :
    /\ events[i].processingError # "" => events[i].status = "failed"
    /\ events[i].processedAt => events[i].status = "processed"

\* C27: at most one upstream stream with the data handler attached is open
\* at any time.
C27_AtMostOneOpenStream ==
  Cardinality({c \in ConnIds : conns[c] = "open"}) <= 1

\* C28: whenever no batch run is in progress, every stored incident is
\* referred back to by the event it names: the event's incidentId is that
\* incident's id.
C28_LinksConsistentBetweenRuns ==
  (\A r \in RunIds : runs[r].pc = "idle") =>
    \A i \in 1..Len(incidents) :
      \A k \in 1..Len(incidents[i].eventIds) :
        LET e == incidents[i].eventIds[k]
        IN e \in 1..Len(events) /\ events[e].incidentId = incidents[i].id

C29_Pending(e) == e <= Len(events) /\ events[e].status = "pending"

\* C29: every pending event eventually leaves pending.  An event whose own
\* saves the store does not refuse forever is marked processed or failed,
\* whatever becomes of the older events.
C29_PendingEventuallyLeaves ==
  \A e \in 1..MaxEvents :
    SF_vars(StoreAccepted(e)) => [](C29_Pending(e) => <>~C29_Pending(e))

\* C30: the flags are released with their runs: isProcessing is true
\* exactly while an invocation of processPendingEvents is between its
\* guard and its finally, and isRunning exactly while one of
\* pollGitHubEvents is, so a trigger that finds no run in progress starts
\* one.
C30_FlagsReleased ==
  /\ isProcessing = (ActiveRuns # {})
  /\ pollRunning = (ActivePolls # {})

\* A poll has ended on an error it rethrew and a batch run has ended after
\* catching the error of an event; both flags are down.
C30_Witness ==
  /\ lastPoll.error
  /\ ActivePolls = {}
  /\ ~pollRunning
  /\ ActiveRuns = {}
  /\ ~isProcessing
  /\ \E i \in 1..Len(events) : events[i].status = "failed"

====
